---- MODULE Spec2Model ----
(***************************************************************************)
(* Model of package tbdiags: the Diagnostics collection, its Append        *)
(* (accumulate / flatten), the HasErrors / Err / ErrWithWarnings /         *)
(* NonFatalErr conversions, the two error views and their messages, and    *)
(* the stable Sort with its Less ordering.                                 *)
(*                                                                         *)
(* Go strings are sequences of one-character strings, so that formatting,  *)
(* separator counting and byte-wise comparison are computed, not assumed.  *)
(* A Diagnostics slice is [isNil, elems]: Go distinguishes the nil slice   *)
(* from an empty non-nil one.  A *SourceRange is <<>> (nil) or <<range>>.  *)
(***************************************************************************)
EXTENDS Naturals, Sequences, FiniteSets, TLC

VARIABLES diags, op, prev, args, ret, wrapped

vars == <<diags, op, prev, args, ret, wrapped>>

\* Longest collection Append builds (which bounds its receiver, the collections
\* among its arguments and the causes of an aggregate error).
MaxLen == 3

\* Most arguments in one variadic Append call.
MaxArgs == 2

\* Longest collection handed to Sort.
MaxSortLen == 4

(***************************************************************************)
(* Strings                                                                 *)
(***************************************************************************)
Byte(c) ==
    CASE c = "\n" -> 10
      [] c = " " -> 32
      [] c = "-" -> 45
      [] c = "." -> 46
      [] c = "/" -> 47
      [] c \in {"0", "1", "2", "3", "4", "5", "6", "7", "8", "9"} ->
            48 + (CHOOSE n \in 0..9 : <<"0", "1", "2", "3", "4", "5", "6", "7", "8", "9">>[n + 1] = c)
      [] c = ":" -> 58
      [] c = "a" -> 97
      [] c = "b" -> 98
      [] c = "c" -> 99
      [] c = "d" -> 100
      [] c = "e" -> 101
      [] c = "f" -> 102
      [] c = "l" -> 108
      [] c = "m" -> 109
      [] c = "o" -> 111
      [] c = "p" -> 112
      [] c = "r" -> 114
      [] c = "s" -> 115
      [] c = "t" -> 116
      [] c = "w" -> 119

\* Go's s < t on strings: byte-wise lexicographic, a proper prefix is smaller.
RECURSIVE StrLess(_, _)
StrLess(s, t) ==
    IF t = <<>> THEN FALSE
    ELSE IF s = <<>> THEN TRUE
    ELSE IF Byte(Head(s)) # Byte(Head(t)) THEN Byte(Head(s)) < Byte(Head(t))
    ELSE StrLess(Tail(s), Tail(t))

\* strings.Count(s, sep) for a one-byte sep.
RECURSIVE Count(_, _)
Count(s, sep) ==
    IF s = <<>> THEN 0
    ELSE (IF Head(s) = sep THEN 1 ELSE 0) + Count(Tail(s), sep)

\* filepath.Separator on the build's platform (Unix).
Separator == "/"

Digit(n) == <<"0", "1", "2", "3", "4", "5", "6", "7", "8", "9">>[n + 1]

\* fmt's %d of a non-negative int.
RECURSIVE Itoa(_)
Itoa(n) == IF n < 10 THEN <<Digit(n)>> ELSE Itoa(n \div 10) \o <<Digit(n % 10)>>

(***************************************************************************)
(* Diagnostic, Severity, Description, Source                               *)
(***************************************************************************)
Error == 69

Warning == 87

NilRange == <<>>

SourceRange(file, startByte, endByte, startLine) ==
    <<[Filename |-> file,
       Start |-> [Line |-> startLine, Column |-> 1, Byte |-> startByte],
       End |-> [Line |-> startLine, Column |-> 1, Byte |-> endByte]]>>

\* A user-authored value implementing the Diagnostic interface.
Diag(sev, summary, detail, subject) ==
    [type |-> "diag",
     sev |-> sev,
     desc |-> [Address |-> <<>>, Summary |-> summary, Detail |-> detail],
     src |-> [Subject |-> subject, Context |-> NilRange]]

\* nativeError{err}: the opaque wrapping of a foreign error.
nativeError(err) == [type |-> "nativeError", err |-> err]

\* A foreign error value: its Error() text and the reflect type names that
\* errwrap.Walk visits in it.
GoError(msg) == [msg |-> msg, types |-> <<"*errors.errorString">>]

NativeSeverity == Error

NativeDescription(err) == [Address |-> <<>>, Summary |-> err.msg, Detail |-> <<>>]

NativeSource == [Subject |-> NilRange, Context |-> NilRange]

Severity(d) == IF d.type = "nativeError" THEN NativeSeverity ELSE d.sev

Description(d) == IF d.type = "nativeError" THEN NativeDescription(d.err) ELSE d.desc

Source(d) == IF d.type = "nativeError" THEN NativeSource ELSE d.src

(***************************************************************************)
(* Diagnostics and the values Append accepts                               *)
(***************************************************************************)
NilDiagnostics == [isNil |-> TRUE, elems |-> <<>>]

\* Diagnostics{...}: a non-nil slice (empty when s = <<>>).
Diagnostics(s) == [isNil |-> FALSE, elems |-> s]

\* Mutant of GoAppend: the new items are put in front.
GoAppendInFront(d, xs) == IF xs = <<>> THEN d ELSE [isNil |-> FALSE, elems |-> xs \o d.elems]

\* The builtin append(diags, xs...): appending nothing returns diags as it is.
GoAppend(d, xs) == IF xs = <<>> THEN d ELSE [isNil |-> FALSE, elems |-> d.elems \o xs]

\* Dynamic values of interface{} (and of error).
NilItem == [kind |-> "nil"]

DiagnosticItem(d) == [kind |-> "Diagnostic", diag |-> d]

DiagnosticsItem(d) == [kind |-> "Diagnostics", diags |-> d]

diagnosticsAsError(d) == [kind |-> "diagnosticsAsError", diags |-> d]

NonFatalError(d) == [kind |-> "NonFatalError", diags |-> d]

MultiError(errs) == [kind |-> "*multierror.Error", Errors |-> errs]

ErrorItem(e) == [kind |-> "error", err |-> e]

\* errwrap.ContainsType(err, v): some error visited by errwrap.Walk has v's
\* reflect type name.  Append asks for "tbdiags.Diagnostics", a type without
\* an Error method, which no error value has.
ContainsType(err, typeName) == \E i \in 1..Len(err.types) : err.types[i] = typeName

\* errwrap.GetType(err, v): the first such error.
GetType(err, typeName) == [msg |-> err.msg, types |-> <<typeName>>]

RECURSIVE DiagnosticsAppend(_, _)

\* Mutant of AppendItem: no case for the fatal view, which then falls to the
\* generic error case and is wrapped as one opaque item.
AppendItemNoUnwrap(d, item) ==
    CASE item.kind = "nil" -> d
      [] item.kind = "Diagnostic" -> GoAppend(d, <<item.diag>>)
      [] item.kind = "Diagnostics" -> GoAppend(d, item.diags.elems)
      [] item.kind = "diagnosticsAsError" ->
            GoAppend(d, <<nativeError([msg |-> <<"e">>,
                                       types |-> <<"tbdiags.diagnosticsAsError">>])>>)
      [] item.kind = "NonFatalError" -> DiagnosticsAppend(d, <<DiagnosticsItem(item.diags)>>)
      [] item.kind = "*multierror.Error" ->
            GoAppend(d, [i \in 1..Len(item.Errors) |-> nativeError(item.Errors[i])])
      [] item.kind = "error" -> GoAppend(d, <<nativeError(item.err)>>)

\* Mutant of AppendItem: a collection or a view is stored as one element.
AppendItemNested(d, item) ==
    CASE item.kind = "nil" -> d
      [] item.kind = "Diagnostic" -> GoAppend(d, <<item.diag>>)
      [] item.kind \in {"Diagnostics", "diagnosticsAsError", "NonFatalError"} ->
            GoAppend(d, <<item>>)
      [] item.kind = "*multierror.Error" ->
            GoAppend(d, [i \in 1..Len(item.Errors) |-> nativeError(item.Errors[i])])
      [] item.kind = "error" -> GoAppend(d, <<nativeError(item.err)>>)

\* One iteration of Append's loop: the type switch on item.
AppendItem(d, item) ==
    CASE item.kind = "nil" -> d
      [] item.kind = "Diagnostic" -> GoAppend(d, <<item.diag>>)
      [] item.kind = "Diagnostics" -> GoAppend(d, item.diags.elems)
      [] item.kind = "diagnosticsAsError" -> DiagnosticsAppend(d, <<DiagnosticsItem(item.diags)>>)
      [] item.kind = "NonFatalError" -> DiagnosticsAppend(d, <<DiagnosticsItem(item.diags)>>)
      [] item.kind = "*multierror.Error" ->
            GoAppend(d, [i \in 1..Len(item.Errors) |-> nativeError(item.Errors[i])])
      [] item.kind = "error" ->
            IF ContainsType(item.err, "tbdiags.Diagnostics")
            THEN DiagnosticsAppend(d, <<ErrorItem(GetType(item.err, "tbdiags.Diagnostics"))>>)
            ELSE GoAppend(d, <<nativeError(item.err)>>)

RECURSIVE AppendLoop(_, _)
AppendLoop(d, new) ==
    IF new = <<>> THEN d ELSE AppendLoop(AppendItem(d, Head(new)), Tail(new))

\* Mutant of NilIfEmpty: the closing check is missing.
NilIfEmptyMissing(d) == d

\* The closing normalisation of Append: empty is returned as nil.
NilIfEmpty(d) == IF Len(d.elems) = 0 THEN NilDiagnostics ELSE d

DiagnosticsAppend(d, new) == NilIfEmpty(AppendLoop(d, new))

(***************************************************************************)
(* Queries and conversions                                                 *)
(***************************************************************************)
HasErrors(d) == \E i \in 1..Len(d.elems) : Severity(d.elems[i]) = Error

\* Mutant of Err: a view whenever the collection is not empty.
ErrOfAnything(d) == IF Len(d.elems) = 0 THEN NilItem ELSE diagnosticsAsError(d)

Err(d) == IF ~HasErrors(d) THEN NilItem ELSE diagnosticsAsError(d)

\* Mutant of ErrWithWarnings: the warnings-only case is lost.
ErrWithWarningsLost(d) == Err(d)

ErrWithWarnings(d) ==
    IF Len(d.elems) = 0 THEN NilItem
    ELSE IF HasErrors(d) THEN Err(d)
    ELSE NonFatalError(d)

NonFatalErr(d) == IF Len(d.elems) = 0 THEN NilItem ELSE NonFatalError(d)

(***************************************************************************)
(* The fatal view: message and causes                                      *)
(***************************************************************************)
\* Mutant of Line: the detail is written even when there is none.
LineAlwaysDetail(desc) == desc.Summary \o <<":", " ">> \o desc.Detail

\* fmt.Sprintf("%s: %s", desc.Summary, desc.Detail), or the summary alone.
Line(desc) ==
    IF desc.Detail = <<>> THEN desc.Summary
    ELSE desc.Summary \o <<":", " ">> \o desc.Detail

\* The loop writing "\n- ..." for each diagnostic from index i on.
RECURSIVE Bullets(_, _)
Bullets(elems, i) ==
    IF i > Len(elems) THEN <<>>
    ELSE <<"\n", "-", " ">> \o Line(Description(elems[i])) \o Bullets(elems, i + 1)

\* diagnosticsAsError.Error()
FatalMessage(dae) ==
    LET ds == dae.diags.elems IN
    IF Len(ds) = 0 THEN <<"n", "o", " ", "e", "r", "r", "o", "r", "s">>
    ELSE IF Len(ds) = 1 THEN Line(Description(ds[1]))
    ELSE Itoa(Len(ds)) \o <<" ", "p", "r", "o", "b", "l", "e", "m", "s", ":", "\n">>
         \o Bullets(ds, 1)

\* diagnosticsAsError.WrappedErrors()
RECURSIVE WrappedFrom(_, _)
WrappedFrom(elems, i) ==
    IF i > Len(elems) THEN <<>>
    ELSE (IF elems[i].type = "nativeError" THEN <<elems[i].err>> ELSE <<>>)
         \o WrappedFrom(elems, i + 1)

\* Mutant of WrappedErrors: each cause is put in front of the ones found so far.
RECURSIVE WrappedBackwards(_, _)
WrappedBackwards(elems, i) ==
    IF i > Len(elems) THEN <<>>
    ELSE WrappedBackwards(elems, i + 1)
         \o (IF elems[i].type = "nativeError" THEN <<elems[i].err>> ELSE <<>>)

WrappedErrorsBackwards(dae) == WrappedBackwards(dae.diags.elems, 1)

WrappedErrors(dae) == WrappedFrom(dae.diags.elems, 1)

(***************************************************************************)
(* Sort                                                                    *)
(***************************************************************************)
\* Mutant of Less: the start line breaks the ties the byte offsets leave.
LessAlsoByLine(sd, i, j) ==
    LET iD == sd[i]
        jD == sd[j]
        iSev == Severity(iD)
        jSev == Severity(jD)
        iSrc == Source(iD)
        jSrc == Source(jD)
    IN  IF iSev # jSev THEN iSev = Warning
        ELSE IF (iSrc.Subject = NilRange) # (jSrc.Subject = NilRange)
        THEN iSrc.Subject = NilRange
        ELSE IF iSrc.Subject # NilRange /\ iSrc.Subject[1] # jSrc.Subject[1]
        THEN LET iSubj == iSrc.Subject[1]
                 jSubj == jSrc.Subject[1]
             IN  IF iSubj.Filename # jSubj.Filename
                 THEN LET iCount == Count(iSubj.Filename, Separator)
                          jCount == Count(jSubj.Filename, Separator)
                      IN  IF iCount # jCount THEN iCount < jCount
                          ELSE StrLess(iSubj.Filename, jSubj.Filename)
                 ELSE IF iSubj.Start.Byte # jSubj.Start.Byte
                 THEN iSubj.Start.Byte < jSubj.Start.Byte
                 ELSE IF iSubj.End.Byte # jSubj.End.Byte
                 THEN iSubj.End.Byte < jSubj.End.Byte
                 ELSE iSubj.Start.Line < jSubj.Start.Line
        ELSE FALSE

\* Mutant of Less: file names are compared as strings only, the separators
\* are not counted.
LessNoSeparatorCount(sd, i, j) ==
    LET iD == sd[i]
        jD == sd[j]
        iSev == Severity(iD)
        jSev == Severity(jD)
        iSrc == Source(iD)
        jSrc == Source(jD)
    IN  IF iSev # jSev THEN iSev = Warning
        ELSE IF (iSrc.Subject = NilRange) # (jSrc.Subject = NilRange)
        THEN iSrc.Subject = NilRange
        ELSE IF iSrc.Subject # NilRange /\ iSrc.Subject[1] # jSrc.Subject[1]
        THEN LET iSubj == iSrc.Subject[1]
                 jSubj == jSrc.Subject[1]
             IN  IF iSubj.Filename # jSubj.Filename
                 THEN StrLess(iSubj.Filename, jSubj.Filename)
                 ELSE IF iSubj.Start.Byte # jSubj.Start.Byte
                 THEN iSubj.Start.Byte < jSubj.Start.Byte
                 ELSE IF iSubj.End.Byte # jSubj.End.Byte
                 THEN iSubj.End.Byte < jSubj.End.Byte
                 ELSE FALSE
        ELSE FALSE

\* sortDiagnostics.Less(i, j), indices from 1.
Less(sd, i, j) ==
    LET iD == sd[i]
        jD == sd[j]
        iSev == Severity(iD)
        jSev == Severity(jD)
        iSrc == Source(iD)
        jSrc == Source(jD)
    IN  IF iSev # jSev THEN iSev = Warning
        ELSE IF (iSrc.Subject = NilRange) # (jSrc.Subject = NilRange)
        THEN iSrc.Subject = NilRange
        ELSE IF iSrc.Subject # NilRange /\ iSrc.Subject[1] # jSrc.Subject[1]
        THEN LET iSubj == iSrc.Subject[1]
                 jSubj == jSrc.Subject[1]
             IN  IF iSubj.Filename # jSubj.Filename
                 THEN LET iCount == Count(iSubj.Filename, Separator)
                          jCount == Count(jSubj.Filename, Separator)
                      IN  IF iCount # jCount THEN iCount < jCount
                          ELSE StrLess(iSubj.Filename, jSubj.Filename)
                 ELSE IF iSubj.Start.Byte # jSubj.Start.Byte
                 THEN iSubj.Start.Byte < jSubj.Start.Byte
                 ELSE IF iSubj.End.Byte # jSubj.End.Byte
                 THEN iSubj.End.Byte < jSubj.End.Byte
                 ELSE FALSE
        ELSE FALSE

\* sortDiagnostics.Swap(i, j)
Swap(sd, i, j) == [sd EXCEPT ![i] = sd[j], ![j] = sd[i]]

\* sort.Stable on fewer than 20 elements is one insertion sort.  The slice is
\* sorted together with each element's index before the call (at), which Less
\* never reads.
Items(tagged) == [k \in 1..Len(tagged) |-> tagged[k].d]

RECURSIVE SiftDown(_, _)
SiftDown(tagged, j) ==
    IF j > 1 /\ Less(Items(tagged), j, j - 1)
    THEN SiftDown(Swap(tagged, j, j - 1), j - 1)
    ELSE tagged

RECURSIVE InsertionSort(_, _)
InsertionSort(tagged, i) ==
    IF i > Len(tagged) THEN tagged
    ELSE InsertionSort(SiftDown(tagged, i), i + 1)

StableSort(elems) ==
    InsertionSort([k \in 1..Len(elems) |-> [d |-> elems[k], at |-> k]], 2)

(***************************************************************************)
(* The values the callers pass                                             *)
(***************************************************************************)
WarnDetail == Diag(Warning, <<"s", "0">>, <<"d">>, NilRange)

ErrNoDetail == Diag(Error, <<"s", "1">>, <<>>, NilRange)

PlainError == GoError(<<"s", "2">>)

\* An errwrap-wrapped error whose inner error is a fatal view.
WrappingError ==
    [msg |-> <<"s", "3">>, types |-> <<"*errors.errorString", "tbdiags.diagnosticsAsError">>]

DiagPool == {WarnDetail, ErrNoDetail}

ErrPool == {PlainError, WrappingError}

\* What a collection can hold: user diagnostics and wrapped errors.
Elements == DiagPool \cup {nativeError(e) : e \in ErrPool}

RECURSIVE Seqs(_, _)
Seqs(S, k) == IF k = 0 THEN {<<>>} ELSE {<<x>> \o s : x \in S, s \in Seqs(S, k - 1)}

\* The argument values that hold exactly k diagnostics or causes.  The views
\* are the ones Err and NonFatalErr return, and the NonFatalError{} literal.
Inputs(k) ==
    {DiagnosticsItem(Diagnostics(s)) : s \in Seqs(Elements, k)}
    \cup {MultiError(s) : s \in Seqs(ErrPool, k)}
    \cup ({Err(Diagnostics(s)) : s \in Seqs(Elements, k)} \ {NilItem})
    \cup ({NonFatalErr(Diagnostics(s)) : s \in Seqs(Elements, k)} \ {NilItem})
    \cup (IF k = 0
          THEN {NilItem, DiagnosticsItem(NilDiagnostics), NonFatalError(NilDiagnostics)}
          ELSE {})
    \cup (IF k = 1
          THEN {DiagnosticItem(d) : d \in Elements} \cup {ErrorItem(e) : e \in ErrPool}
          ELSE {})

\* For the history variable wrapped: the foreign errors an argument brings in
\* wrapped form or asks Append to wrap.
RECURSIVE Causes(_)
Causes(item) ==
    CASE item.kind = "nil" -> <<>>
      [] item.kind = "Diagnostic" ->
            IF item.diag.type = "nativeError" THEN <<item.diag.err>> ELSE <<>>
      [] item.kind \in {"Diagnostics", "diagnosticsAsError", "NonFatalError"} ->
            LET es == item.diags.elems IN
            IF es = <<>> THEN <<>>
            ELSE Causes(DiagnosticItem(Head(es)))
                 \o Causes(DiagnosticsItem(Diagnostics(Tail(es))))
      [] item.kind = "*multierror.Error" -> item.Errors
      [] item.kind = "error" -> <<item.err>>

RECURSIVE CausesOfAll(_)
CausesOfAll(new) ==
    IF new = <<>> THEN <<>> ELSE Causes(Head(new)) \o CausesOfAll(Tail(new))

(***************************************************************************)
(* The state machine: one caller holding one collection                    *)
(***************************************************************************)
NoResult == [kind |-> "none"]

Init ==
    /\ diags \in {NilDiagnostics, Diagnostics(<<>>)}
    /\ op = "idle"
    /\ prev = NilDiagnostics
    /\ args = <<>>
    /\ ret = NoResult
    /\ wrapped = <<>>

\* diags = diags.Append(new...) with the arguments new.
AppendWith(new) ==
    LET result == DiagnosticsAppend(diags, new) IN
    /\ Len(result.elems) <= MaxLen
    /\ diags' = result
    /\ args' = new
    /\ wrapped' = wrapped \o CausesOfAll(new)
    /\ op' = "Append"
    /\ prev' = diags
    /\ ret' = NoResult

\* The caller's choice of arguments: at most n more after chosen, holding at
\* most cap items in all.
RECURSIVE AppendChoosing(_, _, _)
AppendChoosing(chosen, n, cap) ==
    \/ AppendWith(chosen)
    \/ /\ n > 0
       /\ \E k \in 0..cap : \E a \in Inputs(k) :
             AppendChoosing(chosen \o <<a>>, n - 1, cap - k)

AppendCall ==
    /\ op = "idle"
    /\ AppendChoosing(<<>>, MaxArgs, MaxLen - Len(diags.elems))

Query(name, result) ==
    /\ op = "idle"
    /\ op' = name
    /\ prev' = diags
    /\ ret' = result
    /\ UNCHANGED <<diags, args, wrapped>>

ErrCall == Query("Err", Err(diags))

ErrWithWarningsCall == Query("ErrWithWarnings", ErrWithWarnings(diags))

NonFatalErrCall == Query("NonFatalErr", NonFatalErr(diags))

\* diags.Err().Error()
ErrorCall ==
    /\ Err(diags) # NilItem
    /\ Query("Error", [kind |-> "string", str |-> FatalMessage(Err(diags))])

\* diags.Err().(errwrap.Wrapper).WrappedErrors()
WrappedErrorsCall ==
    /\ Err(diags) # NilItem
    /\ Query("WrappedErrors", [kind |-> "errors", errs |-> WrappedErrors(Err(diags))])

\* diags.Sort(): in place, so a nil slice stays nil.
SortCall ==
    /\ op = "idle"
    /\ LET sorted == StableSort(diags.elems) IN
          /\ diags' = [diags EXCEPT !.elems = Items(sorted)]
          /\ ret' = [kind |-> "order", at |-> [k \in 1..Len(sorted) |-> sorted[k].at]]
    /\ op' = "Sort"
    /\ prev' = diags
    /\ UNCHANGED <<args, wrapped>>

\* The call has returned; the caller keeps the collection only.
Return ==
    /\ op # "idle"
    /\ op' = "idle"
    /\ prev' = NilDiagnostics
    /\ args' = <<>>
    /\ ret' = NoResult
    /\ UNCHANGED <<diags, wrapped>>

Next ==
    \/ AppendCall
    \/ ErrCall
    \/ ErrWithWarningsCall
    \/ NonFatalErrCall
    \/ ErrorCall
    \/ WrappedErrorsCall
    \/ SortCall
    \/ Return

Spec == Init /\ [][Next]_vars

(***************************************************************************)
(* Sort on its own: the caller holds any collection of located diagnostics *)
(***************************************************************************)
File_a == <<"/", "a", ".", "t", "f">>

File_b == <<"/", "b", ".", "t", "f">>

File_a_b == <<"/", "a", "/", "b", ".", "t", "f">>

WarnNoSubject == Diag(Warning, <<"w">>, <<>>, NilRange)

WarnInA == Diag(Warning, <<"w">>, <<>>, SourceRange(File_a, 5, 6, 1))

ErrInAB == Diag(Error, <<"e">>, <<>>, SourceRange(File_a_b, 10, 11, 1))

ErrInA == Diag(Error, <<"e">>, <<>>, SourceRange(File_a, 5, 6, 1))

\* The same file and byte offsets as ErrInA, on another line.
ErrInAOtherLine == Diag(Error, <<"e">>, <<>>, SourceRange(File_a, 5, 6, 2))

ErrInALonger == Diag(Error, <<"e">>, <<>>, SourceRange(File_a, 5, 8, 1))

ErrInAEarlier == Diag(Error, <<"e">>, <<>>, SourceRange(File_a, 3, 9, 1))

ErrInB == Diag(Error, <<"e">>, <<>>, SourceRange(File_b, 1, 2, 1))

SortPool ==
    {WarnNoSubject, WarnInA, ErrInAB, ErrInA, ErrInAOtherLine, ErrInALonger,
     ErrInAEarlier, ErrInB}

InitSort ==
    /\ \E k \in 0..MaxSortLen : \E s \in [1..k -> SortPool] :
          diags \in {Diagnostics(s)} \cup (IF k = 0 THEN {NilDiagnostics} ELSE {})
    /\ op = "idle"
    /\ prev = NilDiagnostics
    /\ args = <<>>
    /\ ret = NoResult
    /\ wrapped = <<>>

NextSort ==
    \/ SortCall
    \/ Return

SpecSort == InitSort /\ [][NextSort]_vars

(***************************************************************************)
(* Properties of Append                                                    *)
(***************************************************************************)
\* What the contract says one argument contributes.
Contribution(item) ==
    CASE item.kind = "nil" -> <<>>
      [] item.kind = "Diagnostic" -> <<item.diag>>
      [] item.kind \in {"Diagnostics", "diagnosticsAsError", "NonFatalError"} ->
            item.diags.elems
      [] item.kind = "*multierror.Error" ->
            [i \in 1..Len(item.Errors) |-> [type |-> "nativeError", err |-> item.Errors[i]]]
      [] item.kind = "error" -> <<[type |-> "nativeError", err |-> item.err]>>

RECURSIVE Contributions(_)
Contributions(new) ==
    IF new = <<>> THEN <<>> ELSE Contribution(Head(new)) \o Contributions(Tail(new))

\* C1: Append never discards or reorders items: the result is the receiver's
\* elements in their order, followed by each argument's contribution in
\* argument order (nothing for nil, the item for a single diagnostic, all
\* elements for a collection or a view, one opaque item per cause of an
\* aggregate error, one opaque item for a plain error); so the lengths add up.
C1_AppendKeepsAll ==
    op = "Append" =>
        /\ diags.elems = prev.elems \o Contributions(args)
        /\ \A i \in 1..Len(args) :
              (Len(args) = 1 /\ args[i].kind = "Diagnostics") =>
                  Len(diags.elems) = Len(prev.elems) + Len(args[i].diags.elems)

C1_Witness ==
    /\ op = "Append"
    /\ Len(prev.elems) = 1
    /\ Len(args) = 2
    /\ args[1].kind = "diagnosticsAsError"
    /\ args[2].kind = "*multierror.Error"
    /\ Len(diags.elems) = 3
    /\ diags.elems[1] # diags.elems[2]

\* C2: an Append whose result has no elements returns the nil collection, for
\* a nil receiver and for an empty non-nil one, whatever the arguments; after
\* any Append the collection is nil or has at least one element.
C2_EmptyIsNil ==
    op = "Append" =>
        /\ Len(diags.elems) = 0 => diags.isNil
        /\ diags = NilDiagnostics \/ Len(diags.elems) >= 1
        /\ (prev = NilDiagnostics /\ args = <<NilItem, NilItem>>) => diags = NilDiagnostics

C2_Witness ==
    /\ op = "Append"
    /\ prev = Diagnostics(<<>>)
    /\ Len(args) = 2
    /\ args[1] = DiagnosticsItem(Diagnostics(<<>>))
    /\ args[2] = NilItem
    /\ diags = NilDiagnostics

\* C3: whatever was appended (single items, collections, fatal and non-fatal
\* views, aggregate errors, generic errors), every stored element is a single
\* diagnostic item, never a collection or a view.
C3_NoNesting ==
    \A i \in 1..Len(diags.elems) :
        /\ "type" \in DOMAIN diags.elems[i]
        /\ "kind" \notin DOMAIN diags.elems[i]
        /\ diags.elems[i].type \in {"diag", "nativeError"}

C3_Witness ==
    /\ op = "Append"
    /\ Len(args) = 2
    /\ args[1].kind = "NonFatalError"
    /\ args[2].kind = "diagnosticsAsError"
    /\ Len(args[2].diags.elems) = 2
    /\ Len(diags.elems) = 3

\* The position in args of a value, replaced by another value.
Replaced(new, i, item) == [new EXCEPT ![i] = item]

\* C10: passing a collection D as the view ErrWithWarnings or NonFatalErr
\* returns for it gives the same result (elements, order, nil when empty) as
\* passing D itself, for every receiver and whatever else is passed; so does
\* passing D.Err() when D has an element of severity Error.
C10_ViewRoundTrip ==
    op = "Append" =>
        \A i \in 1..Len(args) :
            args[i].kind = "Diagnostics" =>
                LET D == args[i].diags IN
                /\ DiagnosticsAppend(prev, Replaced(args, i, ErrWithWarnings(D))) = diags
                /\ DiagnosticsAppend(prev, Replaced(args, i, NonFatalErr(D))) = diags
                /\ (\E k \in 1..Len(D.elems) : Severity(D.elems[k]) = Error) =>
                      DiagnosticsAppend(prev, Replaced(args, i, Err(D))) = diags

C10_Witness ==
    /\ op = "Append"
    /\ Len(prev.elems) = 1
    /\ Len(args) = 2
    /\ args[1] = DiagnosticsItem(Diagnostics(<<ErrNoDetail>>))
    /\ args[2] = DiagnosticsItem(Diagnostics(<<WarnDetail>>))
    /\ Err(args[1].diags).kind = "diagnosticsAsError"
    /\ ErrWithWarnings(args[2].diags).kind = "NonFatalError"

(***************************************************************************)
(* Properties of the conversions                                           *)
(***************************************************************************)
NoErrorIn(d) == \A i \in 1..Len(d.elems) : Severity(d.elems[i]) # Error

\* C4: Err returns nil exactly when no element has severity Error (also for a
\* non-empty collection of warnings only); otherwise it returns a fatal view
\* of the whole collection, warnings included, in collection order.
C4_ErrNilIffNoErrors ==
    op = "Err" =>
        /\ (ret = NilItem) <=> NoErrorIn(prev)
        /\ (ret = NilItem) <=> ~HasErrors(prev)
        /\ ~NoErrorIn(prev) => (ret.kind = "diagnosticsAsError" /\ ret.diags = prev)

C4_Witness ==
    /\ op = "Err"
    /\ Len(prev.elems) = 2
    /\ NoErrorIn(prev)
    /\ ret = NilItem

\* C5: ErrWithWarnings returns nil exactly when the collection is empty; with
\* an Error element it returns what Err returns, a fatal view of the whole
\* collection; non-empty with warnings only, it returns a non-fatal view of
\* the whole collection.
C5_ErrWithWarnings ==
    op = "ErrWithWarnings" =>
        /\ (ret = NilItem) <=> Len(prev.elems) = 0
        /\ ~NoErrorIn(prev) =>
              (ret = Err(prev) /\ ret.kind = "diagnosticsAsError" /\ ret.diags = prev)
        /\ (Len(prev.elems) > 0 /\ NoErrorIn(prev)) =>
              (ret.kind = "NonFatalError" /\ ret.diags = prev)

C5_Witness ==
    /\ op = "ErrWithWarnings"
    /\ Len(prev.elems) = 2
    /\ NoErrorIn(prev)
    /\ ret.kind = "NonFatalError"

\* C8: the fatal view's WrappedErrors returns exactly the errors that Append
\* wrapped opaquely (plain errors, each cause of an aggregate error), in the
\* order they were appended, and nothing for a user-authored diagnostic.
C8_WrappedErrorsRecovered ==
    op = "WrappedErrors" => ret.errs = wrapped

C8_Witness ==
    /\ op = "WrappedErrors"
    /\ Len(prev.elems) = 3
    /\ prev.elems[2].type = "diag"
    /\ ret.errs = <<WrappingError, PlainError>>

(***************************************************************************)
(* Properties of the fatal view's message                                  *)
(***************************************************************************)
Summary(d) == Description(d).Summary

Detail(d) == Description(d).Detail

Problems == <<" ", "p", "r", "o", "b", "l", "e", "m", "s", ":">>

\* "- summary" or "- summary: detail"
Bullet(d) ==
    IF Detail(d) = <<>> THEN <<"-", " ">> \o Summary(d)
    ELSE <<"-", " ">> \o Summary(d) \o <<":", " ">> \o Detail(d)

\* The bullets of elems from i on, each after the text before.
RECURSIVE Bulleted(_, _, _)
Bulleted(elems, i, before) ==
    IF i > Len(elems) THEN <<>>
    ELSE before \o Bullet(elems[i]) \o Bulleted(elems, i + 1, before)

\* C9 as stated: the message for n > 1 items is "<n> problems:" and one bullet
\* per item in collection order, which for three items s1, s2, s3 without
\* detail reads "3 problems:\n\n- s1\n\n- s2\n\n- s3", a blank line before
\* every bullet.
C9_AsStated ==
    (/\ op = "Error"
     /\ Len(prev.elems) = 3
     /\ \A i \in 1..3 : Detail(prev.elems[i]) = <<>>) =>
        ret.str = <<"3">> \o Problems \o Bulleted(prev.elems, 1, <<"\n", "\n">>)

\* C9 amended: the message for n > 1 items is "<n> problems:\n" and, for each
\* item in collection order, "\n- summary" or "\n- summary: detail": a blank
\* line after the header only, "3 problems:\n\n- s1\n- s2\n- s3" for three
\* items s1, s2, s3 without detail.
C9_MessageBullets ==
    (op = "Error" /\ Len(prev.elems) > 1) =>
        /\ ret.str = Itoa(Len(prev.elems)) \o Problems \o <<"\n">>
                     \o Bulleted(prev.elems, 1, <<"\n">>)
        /\ prev.elems = <<ErrNoDetail, nativeError(PlainError), nativeError(WrappingError)>> =>
              ret.str = <<"3", " ", "p", "r", "o", "b", "l", "e", "m", "s", ":", "\n",
                          "\n", "-", " ", "s", "1",
                          "\n", "-", " ", "s", "2",
                          "\n", "-", " ", "s", "3">>

C9_Witness ==
    /\ op = "Error"
    /\ prev.elems = <<ErrNoDetail, nativeError(PlainError), nativeError(WrappingError)>>
    /\ Len(ret.str) = 27

(***************************************************************************)
(* Properties of Sort                                                      *)
(***************************************************************************)
HasSubject(d) == Source(d).Subject # NilRange

Subject(d) == Source(d).Subject[1]

\* The two diagnostics differ by no sortable characteristic.
SameRank(x, y) ==
    /\ Severity(x) = Severity(y)
    /\ HasSubject(x) = HasSubject(y)
    /\ HasSubject(x) =>
          /\ Subject(x).Filename = Subject(y).Filename
          /\ Subject(x).Start.Byte = Subject(y).Start.Byte
          /\ Subject(x).End.Byte = Subject(y).End.Byte

\* ret.at is a rearrangement of the positions before the call, and the
\* collection after the call holds the elements it names.
IsRearrangement ==
    /\ Len(ret.at) = Len(prev.elems)
    /\ Len(diags.elems) = Len(prev.elems)
    /\ \A k \in 1..Len(prev.elems) : \E p \in 1..Len(ret.at) : ret.at[p] = k
    /\ \A p \in 1..Len(ret.at) : diags.elems[p] = prev.elems[ret.at[p]]

\* C6: Sort is stable: of two elements that differ by no sortable
\* characteristic, the one that was earlier before Sort is earlier after it,
\* from whatever order Sort started.
C6_SortStable ==
    op = "Sort" =>
        /\ IsRearrangement
        /\ \A p, q \in 1..Len(diags.elems) :
              (p < q /\ SameRank(diags.elems[p], diags.elems[q])) => ret.at[p] < ret.at[q]

C6_Witness ==
    /\ op = "Sort"
    /\ prev.elems = <<ErrInAOtherLine, ErrInAB, ErrInA, WarnNoSubject>>
    /\ diags.elems = <<WarnNoSubject, ErrInAOtherLine, ErrInA, ErrInAB>>

\* The tiers as one key: severity, subject, separators, file name, start and
\* end byte offsets.
Tier(d) ==
    <<IF Severity(d) = Warning THEN 0 ELSE 1,
      IF HasSubject(d) THEN 1 ELSE 0,
      IF HasSubject(d) THEN Count(Subject(d).Filename, "/") ELSE 0,
      IF HasSubject(d) THEN Subject(d).Start.Byte ELSE 0,
      IF HasSubject(d) THEN Subject(d).End.Byte ELSE 0>>

FileOf(d) == IF HasSubject(d) THEN Subject(d).Filename ELSE <<>>

\* x comes strictly before y under the tiers.
Precedes(x, y) ==
    LET tx == Tier(x)
        ty == Tier(y)
    IN  \/ tx[1] < ty[1]
        \/ tx[1] = ty[1] /\ tx[2] < ty[2]
        \/ tx[1] = ty[1] /\ tx[2] = ty[2] /\ tx[3] < ty[3]
        \/ tx[1] = ty[1] /\ tx[2] = ty[2] /\ tx[3] = ty[3] /\ StrLess(FileOf(x), FileOf(y))
        \/ /\ tx[1] = ty[1] /\ tx[2] = ty[2] /\ tx[3] = ty[3] /\ FileOf(x) = FileOf(y)
           /\ tx[4] < ty[4]
        \/ /\ tx[1] = ty[1] /\ tx[2] = ty[2] /\ tx[3] = ty[3] /\ FileOf(x) = FileOf(y)
           /\ tx[4] = ty[4] /\ tx[5] < ty[5]

\* C7: after Sort no item stands after one it strictly precedes under the
\* tiers (warnings before errors; without a subject before with one; fewer
\* path separators, then the smaller file name, then the smaller start, then
\* the smaller end byte offset); [Error@"/a/b.tf":10, Warning@none,
\* Error@"/a.tf":5] becomes [Warning@none, Error@"/a.tf":5, Error@"/a/b.tf":10].
C7_SortOrder ==
    op = "Sort" =>
        /\ IsRearrangement
        /\ \A p, q \in 1..Len(diags.elems) :
              p < q => ~Precedes(diags.elems[q], diags.elems[p])
        /\ prev.elems = <<ErrInAB, WarnNoSubject, ErrInA>> =>
              diags.elems = <<WarnNoSubject, ErrInA, ErrInAB>>

C7_Witness ==
    /\ op = "Sort"
    /\ prev.elems = <<ErrInAB, WarnNoSubject, ErrInA>>
    /\ diags.elems = <<WarnNoSubject, ErrInA, ErrInAB>>

====
